---- MODULE Spec2Model ----
(***************************************************************************)
(* Model of the encode/decode functions that generate() of src/js.ts      *)
(* emits for a schema, together with the bytebuffer 5.x operations the     *)
(* emitted code calls.  Numbers are bit vectors (least significant bit     *)
(* first) so that 32-bit and 64-bit wrap-around is exactly the code's.     *)
(***************************************************************************)
EXTENDS Integers, Sequences, FiniteSets, TLC

\* ------------------------------------------------------------------ bounds
\* longest sequence of elements given to a repeated field
MaxLen == 2
\* most well-formed fields in front of the fragment under test
MaxFrags == 1

\* ------------------------------------------------------------- bit vectors
RECURSIVE NatBits(_, _)
NatBits(n, w) == IF w = 0 THEN <<>> ELSE <<n % 2>> \o NatBits(n \div 2, w - 1)

RECURSIVE BitsNat(_)
BitsNat(b) == IF b = <<>> THEN 0 ELSE Head(b) + 2 * BitsNat(Tail(b))

Zeros(w) == [i \in 1..w |-> 0]
Ones(w) == [i \in 1..w |-> 1]
Trunc(b, w) == [i \in 1..w |-> IF i <= Len(b) THEN b[i] ELSE 0]
Shl(b, k) == [i \in 1..Len(b) |-> IF i - k >= 1 THEN b[i - k] ELSE 0]
Shru(b, k) == [i \in 1..Len(b) |-> IF i + k <= Len(b) THEN b[i + k] ELSE 0]
Sar(b, k) == [i \in 1..Len(b) |-> IF i + k <= Len(b) THEN b[i + k] ELSE b[Len(b)]]
BitOr(a, b) == [i \in 1..Len(a) |-> IF a[i] = 1 \/ b[i] = 1 THEN 1 ELSE 0]
BitAnd(a, b) == [i \in 1..Len(a) |-> IF a[i] = 1 /\ b[i] = 1 THEN 1 ELSE 0]
BitXor(a, b) == [i \in 1..Len(a) |-> IF a[i] # b[i] THEN 1 ELSE 0]
BitNot(a) == [i \in 1..Len(a) |-> 1 - a[i]]
Bits(b, lo, n) == [i \in 1..n |-> IF lo + i <= Len(b) THEN b[lo + i] ELSE 0]

RECURSIVE Inc(_)
Inc(b) ==
  IF b = <<>> THEN <<>>
  ELSE IF Head(b) = 0 THEN <<1>> \o Tail(b) ELSE <<0>> \o Inc(Tail(b))

Negate(b) == Inc(BitNot(b))
SignExtend(b, w) == [i \in 1..w |-> IF i <= Len(b) THEN b[i] ELSE b[Len(b)]]

\* ---------------------------------------------------------------- values
\* Every value of the emitted JavaScript is a record tagged by t.
Undefined == [t |-> "undefined"]
Bool(v) == [t |-> "bool", v |-> v]
\* a number the code has passed through | 0 (u = FALSE) or >>> 0 (u = TRUE)
Num(bits, u) == [t |-> "num", bits |-> bits, u |-> u]
\* ByteBuffer.Long: low and high 32 bits, and the unsigned flag
Long(bits, u) == [t |-> "long", bits |-> bits, u |-> u]
Str(units) == [t |-> "string", v |-> units]
Bytes(bs) == [t |-> "bytes", v |-> bs]
Float(bits) == [t |-> "float", bits |-> bits]
Arr(vs) == [t |-> "array", v |-> vs]
Msg(m) == [t |-> "message", v |-> m]

Int32(n) == Num(IF n >= 0 THEN NatBits(n, 32) ELSE Negate(NatBits(0 - n, 32)), FALSE)
FromBits(low, high) == low \o high
Low(l) == Bits(l.bits, 0, 32)
High(l) == Bits(l.bits, 32, 32)

\* ---------------------------------------------- bytebuffer: write operations
\* Each write yields the bytes it appends to the buffer.
ByteAt(bits, k) == BitsNat(Bits(bits, 8 * k, 8))
Below(bits, k) == \A i \in (k + 1)..Len(bits) : bits[i] = 0

\* writeByte(value ? 1 : 0)
writeByte(n) == <<n % 256>>

\* writeVarint32: value >>>= 0; while (value >= 0x80) {...}
RECURSIVE writeVarint32(_)
writeVarint32(bits) ==
  IF ~Below(bits, 7)
  THEN <<BitsNat(Bits(bits, 0, 7)) + 128>> \o writeVarint32(Shru(bits, 7))
  ELSE <<BitsNat(Bits(bits, 0, 8))>>

\* Long.fromNumber of a 32-bit integer: sign extension to 64 bits
LongFromInt32(bits) == Long(SignExtend(bits, 64), FALSE)

calculateVarint64(l) ==
  LET part0 == Bits(l.bits, 0, 32)
      part1 == Bits(l.bits, 28, 32)
      part2 == Bits(l.bits, 56, 32)
  IN IF Below(part2, 0)
     THEN IF Below(part1, 0)
          THEN IF Below(part0, 14)
               THEN (IF Below(part0, 7) THEN 1 ELSE 2)
               ELSE (IF Below(part0, 21) THEN 3 ELSE 4)
          ELSE IF Below(part1, 14)
               THEN (IF Below(part1, 7) THEN 5 ELSE 6)
               ELSE (IF Below(part1, 21) THEN 7 ELSE 8)
     ELSE (IF Below(part2, 7) THEN 9 ELSE 10)

\* byte k (from 0) of writeVarint64's switch (size)
Varint64Byte(l, size, k) ==
  LET part0 == Bits(l.bits, 0, 32)
      part1 == Bits(l.bits, 28, 32)
      part2 == Bits(l.bits, 56, 32)
      src == IF k < 4 THEN Shru(part0, 7 * k)
             ELSE IF k < 8 THEN Shru(part1, 7 * (k - 4))
             ELSE IF k = 8 THEN part2
             ELSE Shru(part2, 7)
  IN IF k = 9 THEN src[1]
     ELSE IF size # k + 1 THEN BitsNat(Bits(src, 0, 7)) + 128
     ELSE BitsNat(Bits(src, 0, 7))

writeVarint64(l) ==
  LET size == calculateVarint64(l)
  IN [k \in 1..size |-> Varint64Byte(l, size, k - 1)]

zigZagEncode32(bits) == BitXor(Shl(bits, 1), Sar(bits, 31))
zigZagDecode32(bits) ==
  BitXor(Shru(bits, 1), IF bits[1] = 1 THEN Ones(32) ELSE Zeros(32))
zigZagEncode64(l) == Long(BitXor(Shl(l.bits, 1), Sar(l.bits, 63)), TRUE)
zigZagDecode64(l) ==
  Long(BitXor(Shru(l.bits, 1), IF l.bits[1] = 1 THEN Ones(64) ELSE Zeros(64)), FALSE)

\* writeUint32 / writeInt32 / writeFloat: four bytes, little endian
writeInt32(bits) == [k \in 1..4 |-> ByteAt(bits, k - 1)]
\* writeUint64 / writeInt64 / writeDouble: low word then high word
writeInt64(bits) == [k \in 1..8 |-> ByteAt(bits, k - 1)]

\* utfx.encodeUTF16toUTF8: a unit in D800..DFFF followed by one in
\* DC00..DFFF is joined with it, then each code point is written in one to
\* four bytes
RECURSIVE UTF16toCodePoints(_)
UTF16toCodePoints(u) ==
  IF u = <<>> THEN <<>>
  ELSE IF /\ Head(u) >= 55296 /\ Head(u) <= 57343 /\ Len(u) >= 2
          /\ u[2] >= 56320 /\ u[2] <= 57343
       THEN <<(Head(u) - 55296) * 1024 + u[2] - 56320 + 65536>>
            \o UTF16toCodePoints(Tail(Tail(u)))
       ELSE <<Head(u)>> \o UTF16toCodePoints(Tail(u))

encodeUTF8Char(cp) ==
  IF cp < 128 THEN <<cp>>
  ELSE IF cp < 2048 THEN <<192 + (cp \div 64), 128 + (cp % 64)>>
  ELSE IF cp < 65536
       THEN <<224 + (cp \div 4096), 128 + ((cp \div 64) % 64), 128 + (cp % 64)>>
  ELSE <<240 + ((cp \div 262144) % 8), 128 + ((cp \div 4096) % 64),
         128 + ((cp \div 64) % 64), 128 + (cp % 64)>>

RECURSIVE encodeUTF8(_)
encodeUTF8(cps) ==
  IF cps = <<>> THEN <<>> ELSE encodeUTF8Char(Head(cps)) \o encodeUTF8(Tail(cps))

writeUTF8String(units) == encodeUTF8(UTF16toCodePoints(units))

\* ----------------------------------------------- bytebuffer: read operations
\* A read at offset (counted from 0) of view yields the value read and the
\* offset after it, or the error it throws.  Reads assert against the
\* buffer's capacity, Len(view); only readVarint32 looks at the limit.
Ok(val, off) == [err |-> "", val |-> val, off |-> off]
Fail(msg) == [err |-> msg, val |-> Undefined, off |-> 0]
NoByte == 0 - 1
\* view[offset]: undefined past the end of the typed array
ViewAt(view, offset) ==
  IF offset >= 0 /\ offset < Len(view) THEN view[offset + 1] ELSE NoByte
\* b & 0x7f and b & 0x80, with undefined & n = 0
Low7(b) == IF b = NoByte THEN 0 ELSE b % 128
HasMore(b) == b # NoByte /\ b >= 128
Word7(b, shift) == Shl(Trunc(NatBits(Low7(b), 7), 32), shift)

\* readByte = readInt8: a signed byte
readByte(view, offset) ==
  IF offset < 0 \/ offset + 1 > Len(view) THEN Fail("RangeError: Illegal offset")
  ELSE LET value == view[offset + 1]
       IN Ok(IF value >= 128 THEN value - 256 ELSE value, offset + 1)

RECURSIVE ReadVarint32Loop(_, _, _, _, _)
ReadVarint32Loop(view, limit, offset, c, value) ==
  IF offset > limit THEN Fail("Error: Truncated")
  ELSE LET b == ViewAt(view, offset)
           v == IF c < 5 THEN BitOr(value, Word7(b, 7 * c)) ELSE value
       IN IF HasMore(b) THEN ReadVarint32Loop(view, limit, offset + 1, c + 1, v)
          ELSE Ok(Num(v, FALSE), offset + 1)

readVarint32(view, limit, offset) ==
  IF offset < 0 \/ offset + 1 > Len(view) THEN Fail("RangeError: Illegal offset")
  ELSE ReadVarint32Loop(view, limit, offset, 0, Zeros(32))

\* readVarint64: at most ten bytes, in three parts of 28, 28 and 14 bits
RECURSIVE ReadVarint64Bytes(_, _, _)
ReadVarint64Bytes(view, offset, n) ==
  LET b == ViewAt(view, offset)
  IN IF HasMore(b)
     THEN IF n = 10 THEN <<NoByte>>
          ELSE <<b>> \o ReadVarint64Bytes(view, offset + 1, n + 1)
     ELSE <<b>>

RECURSIVE Varint64Part(_, _, _)
Varint64Part(bs, from, count) ==
  IF count = 0 \/ from > Len(bs) THEN Zeros(32)
  ELSE BitOr(Word7(bs[from], 0), Shl(Varint64Part(bs, from + 1, count - 1), 7))

readVarint64(view, offset) ==
  IF offset < 0 \/ offset + 1 > Len(view) THEN Fail("RangeError: Illegal offset")
  ELSE LET bs == ReadVarint64Bytes(view, offset, 1)
           part0 == Varint64Part(bs, 1, 4)
           part1 == Varint64Part(bs, 5, 4)
           part2 == Varint64Part(bs, 9, 2)
           low == BitOr(part0, Shl(part1, 28))
           high == BitOr(Shru(part1, 4), Shl(part2, 24))
       IN IF Len(bs) = 10 /\ bs[10] = NoByte /\ HasMore(ViewAt(view, offset + 9))
          THEN Fail("Error: Buffer overrun")
          ELSE Ok(Long(FromBits(low, high), FALSE), offset + Len(bs))

RECURSIVE LittleEndian(_, _, _)
LittleEndian(view, offset, n) ==
  IF n = 0 THEN <<>>
  ELSE NatBits(view[offset + 1], 8) \o LittleEndian(view, offset + 1, n - 1)

\* readUint32 / readInt32 / readFloat and readUint64 / readInt64 / readDouble
ReadFixed(view, offset, n) ==
  IF offset < 0 \/ offset + n > Len(view) THEN Fail("RangeError: Illegal offset")
  ELSE Ok([t |-> "bits", bits |-> LittleEndian(view, offset, n)], offset + n)

\* readBytes(length).toBuffer(): slice(offset, offset + length)
readBytes(view, offset, length) ==
  IF offset < 0 \/ offset + length > Len(view) THEN Fail("RangeError: Illegal offset")
  ELSE IF offset > offset + length THEN Fail("RangeError: Illegal range")
  ELSE Ok(Bytes(SubSeq(view, offset + 1, offset + length)), offset + length)

\* utfx.decodeUTF8: code points of a byte sequence; <<-1>> ends a sequence
\* that is cut short or starts with an illegal byte
RECURSIVE decodeUTF8(_)
decodeUTF8(bs) ==
  IF bs = <<>> THEN <<>>
  ELSE LET a == bs[1] IN
    IF a < 128 THEN <<a>> \o decodeUTF8(Tail(bs))
    ELSE IF a \div 32 = 6
      THEN IF Len(bs) < 2 THEN <<0 - 1>>
           ELSE <<(a % 32) * 64 + (bs[2] % 64)>> \o decodeUTF8(SubSeq(bs, 3, Len(bs)))
    ELSE IF a \div 16 = 14
      THEN IF Len(bs) < 3 THEN <<0 - 1>>
           ELSE <<(a % 16) * 4096 + (bs[2] % 64) * 64 + (bs[3] % 64)>>
                \o decodeUTF8(SubSeq(bs, 4, Len(bs)))
    ELSE IF a \div 8 = 30
      THEN IF Len(bs) < 4 THEN <<0 - 1>>
           ELSE <<(a % 8) * 262144 + (bs[2] % 64) * 4096 + (bs[3] % 64) * 64 + (bs[4] % 64)>>
                \o decodeUTF8(SubSeq(bs, 5, Len(bs)))
    ELSE <<0 - 1>>

RECURSIVE CodePointsToUTF16(_)
CodePointsToUTF16(cps) ==
  IF cps = <<>> THEN <<>>
  ELSE IF Head(cps) <= 65535 THEN <<Head(cps)>> \o CodePointsToUTF16(Tail(cps))
  ELSE <<((Head(cps) - 65536) \div 1024) + 55296, ((Head(cps) - 65536) % 1024) + 56320>>
       \o CodePointsToUTF16(Tail(cps))

\* readUTF8String(length, "b")
readUTF8String(view, offset, length) ==
  IF offset < 0 \/ offset + length > Len(view) THEN Fail("RangeError: Illegal offset")
  ELSE IF length < 0 THEN Fail("RangeError: Illegal range")
  ELSE LET cps == decodeUTF8(SubSeq(view, offset + 1, offset + length))
       IN IF \E i \in 1..Len(cps) : cps[i] < 0
          THEN Fail("RangeError: Illegal byte sequence")
          ELSE Ok(Str(CodePointsToUTF16(cps)), offset + length)

\* the value of a number read by readVarint32, as an integer, when it is a
\* length: value |= 0 is a signed 32-bit integer
ToInt32(bits) ==
  IF bits[32] = 1 THEN 0 - (BitsNat(Bits(BitNot(bits), 0, 31)) + 1)
  ELSE BitsNat(Bits(bits, 0, 31))

\* ----------------------------------------------------------------- schema
\* A schema is [enums, messages]; a message definition [name, fields]; a
\* field [name, type, tag, required, repeated, packed], packed being the
\* text of options.packed or "unset"; an enum definition [name, values],
\* each value [key, value] with key = [text, prefix, rest]: prefix is the
\* part of text before its first "_" ("" when there is none).
TYPE_VAR_INT == 0
TYPE_SIZE_8 == 1
TYPE_SIZE_N == 2
TYPE_SIZE_4 == 5

Field(name, type, tag, card, packed) ==
  [name |-> name, type |-> type, tag |-> tag, required |-> card = "required",
   repeated |-> card = "repeated", packed |-> packed]
Key(text, prefix, rest) == [text |-> text, prefix |-> prefix, rest |-> rest]

\* the own keys of the packableTypes literal
packableScalars ==
  {"bool", "double", "fixed32", "fixed64", "float", "int32", "int64",
   "sfixed32", "sfixed64", "sint32", "sint64", "uint32", "uint64"}

\* the properties every object literal inherits from Object.prototype
ObjectPrototypeKeys ==
  {"constructor", "hasOwnProperty", "isPrototypeOf", "propertyIsEnumerable",
   "toLocaleString", "toString", "valueOf", "__proto__"}

\* key in object, for an object literal with the own keys keys
In(key, keys) == key \in keys \/ key \in ObjectPrototypeKeys

EmptyMap == [k \in {} |-> Undefined]
EnumNames(schema) == {schema.enums[i].name : i \in 1..Len(schema.enums)}

\* key.slice(0, prefix.length) === prefix ? key.slice(prefix.length) : key
StripPrefix(def, key) == IF key.prefix = def.name THEN key.rest ELSE key.text

\* the encode and decode objects of an enum; a later value overwrites
RECURSIVE EncodeTable(_, _)
EncodeTable(def, n) ==
  IF n = 0 THEN EmptyMap
  ELSE (StripPrefix(def, def.values[n].key) :> def.values[n].value)
       @@ EncodeTable(def, n - 1)

RECURSIVE DecodeTable(_, _)
DecodeTable(def, n) ==
  IF n = 0 THEN EmptyMap
  ELSE (def.values[n].value :> StripPrefix(def, def.values[n].key))
       @@ DecodeTable(def, n - 1)

EnumDef(schema, name) ==
  schema.enums[CHOOSE i \in 1..Len(schema.enums) : schema.enums[i].name = name]
MessageDef(schema, name) ==
  schema.messages[CHOOSE i \in 1..Len(schema.messages) : schema.messages[i].name = name]

RECURSIVE AllFields(_, _)
AllFields(messages, i) ==
  IF i > Len(messages) THEN <<>>
  ELSE messages[i].fields \o AllFields(messages, i + 1)

\* the validation loop of generate: the name of the first field it throws
\* for, or "" when it throws for none
PackedError(schema, packable) ==
  LET fs == AllFields(schema.messages, 1)
      hits == {i \in 1..Len(fs) :
                 fs[i].packed = "true" /\ (~fs[i].repeated \/ ~In(fs[i].type, packable))}
  IN IF hits = {} THEN ""
     ELSE fs[CHOOSE i \in hits : \A j \in hits : i <= j].name

\* what generate leaves behind for the emitted code: the enums object and
\* packableTypes after the enum loop
Generated(schema) ==
  [enums |-> EnumNames(schema), packableTypes |-> packableScalars \cup EnumNames(schema)]

\* ------------------------------------------------------------------ encode
\* An encode error (writeVarint32 of undefined) is a byte sequence holding
\* NoByte.
IsError(bytes) == \E i \in 1..Len(bytes) : bytes[i] = NoByte

\* coerceLong(value) passed to a 64-bit write: the bits are written whatever
\* the unsigned flag is
coerceLong(value) == Long(value.bits, value.u)

\* the wire type each field type is written with
WireType(codec, type) ==
  CASE type \in {"bool", "int32", "int64", "sint32", "sint64", "uint32", "uint64"}
         -> TYPE_VAR_INT
    [] type \in {"double", "fixed64", "sfixed64"} -> TYPE_SIZE_8
    [] type \in {"fixed32", "float", "sfixed32"} -> TYPE_SIZE_4
    [] type \in {"bytes", "string"} -> TYPE_SIZE_N
    [] OTHER -> IF In(type, codec.enums) THEN TYPE_VAR_INT ELSE TYPE_SIZE_N

\* the write expression of a field whose type is no embedded message
WriteScalar(schema, codec, type, value) ==
  CASE type = "bool" -> writeByte(IF value.v THEN 1 ELSE 0)
    [] type = "bytes" -> writeVarint32(NatBits(Len(value.v), 32)) \o value.v
    [] type = "double" -> writeInt64(value.bits)
    [] type = "fixed32" -> writeInt32(value.bits)
    [] type = "fixed64" -> writeInt64(coerceLong(value).bits)
    [] type = "float" -> writeInt32(value.bits)
    [] type = "int32" -> writeVarint64(LongFromInt32(value.bits))
    [] type = "int64" -> writeVarint64(coerceLong(value))
    [] type = "sfixed32" -> writeInt32(value.bits)
    [] type = "sfixed64" -> writeInt64(coerceLong(value).bits)
    [] type = "sint32" -> writeVarint32(zigZagEncode32(value.bits))
    [] type = "sint64" -> writeVarint64(zigZagEncode64(coerceLong(value)))
    [] type = "uint32" -> writeVarint32(value.bits)
    [] type = "uint64" -> writeVarint64(coerceLong(value))
    [] type = "string" ->
         LET nested == writeUTF8String(value.v)
         IN writeVarint32(NatBits(Len(nested), 32)) \o nested
    [] OTHER ->
         \* an enum: writeVarint32(encodeE[value])
         LET def == EnumDef(schema, type)
             table == EncodeTable(def, Len(def.values))
         IN IF value.t = "name" /\ value.v \in DOMAIN table
            THEN writeVarint32(NatBits(table[value.v], 32))
            ELSE <<NoByte>>

TagBytes(tag, type) == writeVarint32(NatBits(tag * 8 + type, 32))

RECURSIVE EncodeMessage(_, _, _, _)
RECURSIVE EncodeFields(_, _, _, _, _)
RECURSIVE EncodeEach(_, _, _, _, _, _)

\* write, preceded by before: a nested message is encoded first
WriteValue(schema, codec, field, value) ==
  IF field.type \in packableScalars \cup {"bytes", "string"} \/ In(field.type, codec.enums)
  THEN WriteScalar(schema, codec, field.type, value)
  ELSE LET nested == EncodeMessage(schema, codec, field.type, value.v)
       IN IF IsError(nested) THEN <<NoByte>>
          ELSE writeVarint32(NatBits(Len(nested), 32)) \o nested

\* the loop over values; withTag is the unpacked form
EncodeEach(schema, codec, field, values, i, withTag) ==
  IF i > Len(values) THEN <<>>
  ELSE (IF withTag THEN TagBytes(field.tag, WireType(codec, field.type)) ELSE <<>>)
       \o WriteValue(schema, codec, field, values[i])
       \o EncodeEach(schema, codec, field, values, i + 1, withTag)

\* what one field of the message contributes
EncodeField(schema, codec, field, message) ==
  LET isPacked == field.repeated /\ field.packed # "false"
                  /\ In(field.type, codec.packableTypes)
      present == field.name \in DOMAIN message /\ message[field.name].t # "undefined"
  IN IF ~present THEN <<>>
     ELSE IF field.repeated
     THEN IF isPacked
          THEN LET packed == EncodeEach(schema, codec, field, message[field.name].v, 1, FALSE)
               IN TagBytes(field.tag, TYPE_SIZE_N)
                  \o writeVarint32(NatBits(Len(packed), 32)) \o packed
          ELSE EncodeEach(schema, codec, field, message[field.name].v, 1, TRUE)
     ELSE TagBytes(field.tag, WireType(codec, field.type))
          \o WriteValue(schema, codec, field, message[field.name])

EncodeFields(schema, codec, fields, i, message) ==
  IF i > Len(fields) THEN <<>>
  ELSE EncodeField(schema, codec, fields[i], message)
       \o EncodeFields(schema, codec, fields, i + 1, message)

\* encode<name>(message)
EncodeMessage(schema, codec, name, message) ==
  LET out == EncodeFields(schema, codec, MessageDef(schema, name).fields, 1, message)
  IN IF IsError(out) THEN <<NoByte>> ELSE out

\* ------------------------------------------------------------------ decode
\* the read expression of a field whose type is no embedded message
ReadBool(view, limit, offset) ==
  LET r == readByte(view, offset)
  IN IF r.err # "" THEN r ELSE Ok(Bool(r.val # 0), r.off)

\* the read of a uint32 without its >>> 0
ReadUint32Signed(view, limit, offset) == readVarint32(view, limit, offset)

ReadUint32(view, limit, offset) ==
  LET r == readVarint32(view, limit, offset)
  IN IF r.err # "" THEN r ELSE Ok(Num(r.val.bits, TRUE), r.off)

ReadEnum(schema, type, view, limit, offset) ==
  LET r == readVarint32(view, limit, offset)
      def == EnumDef(schema, type)
      table == DecodeTable(def, Len(def.values))
  IN IF r.err # "" THEN r
     ELSE IF ToInt32(r.val.bits) \in DOMAIN table
     THEN Ok([t |-> "name", v |-> table[ToInt32(r.val.bits)]], r.off)
     ELSE Ok(Undefined, r.off)

ReadScalar(schema, codec, type, view, limit, offset) ==
  LET len == readVarint32(view, limit, offset)
      v32 == readVarint32(view, limit, offset)
      v64 == readVarint64(view, offset)
      f4 == ReadFixed(view, offset, 4)
      f8 == ReadFixed(view, offset, 8)
  IN CASE type = "bool" -> ReadBool(view, limit, offset)
       [] type = "bytes" ->
            IF len.err # "" THEN len ELSE readBytes(view, len.off, ToInt32(len.val.bits))
       [] type = "double" -> IF f8.err # "" THEN f8 ELSE Ok(Float(f8.val.bits), f8.off)
       [] type = "fixed32" -> IF f4.err # "" THEN f4 ELSE Ok(Num(f4.val.bits, TRUE), f4.off)
       [] type = "fixed64" -> IF f8.err # "" THEN f8 ELSE Ok(Long(f8.val.bits, TRUE), f8.off)
       [] type = "float" -> IF f4.err # "" THEN f4 ELSE Ok(Float(f4.val.bits), f4.off)
       [] type = "int32" -> v32
       [] type = "int64" -> v64
       [] type = "sfixed32" -> IF f4.err # "" THEN f4 ELSE Ok(Num(f4.val.bits, FALSE), f4.off)
       [] type = "sfixed64" -> IF f8.err # "" THEN f8 ELSE Ok(Long(f8.val.bits, FALSE), f8.off)
       [] type = "sint32" ->
            IF v32.err # "" THEN v32 ELSE Ok(Num(zigZagDecode32(v32.val.bits), FALSE), v32.off)
       [] type = "sint64" ->
            IF v64.err # "" THEN v64 ELSE Ok(zigZagDecode64(v64.val), v64.off)
       [] type = "string" ->
            IF len.err # "" THEN len
            ELSE readUTF8String(view, len.off, ToInt32(len.val.bits))
       [] type = "uint32" -> ReadUint32(view, limit, offset)
       [] type = "uint64" -> IF v64.err # "" THEN v64 ELSE Ok(Long(v64.val.bits, TRUE), v64.off)
       [] OTHER -> ReadEnum(schema, type, view, limit, offset)

\* while (buffer.readByte() & 0x80) {}
RECURSIVE SkipVarint(_, _)
SkipVarint(view, offset) ==
  LET r == readByte(view, offset)
  IN IF r.err # "" THEN r
     ELSE IF r.val < 0 THEN SkipVarint(view, r.off)
     ELSE Ok(Undefined, r.off)

\* buffer.skip(length): the offset may move either way inside the buffer
skip(view, offset, length) ==
  IF offset + length < 0 \/ offset + length > Len(view)
  THEN Fail("RangeError: Illegal length")
  ELSE Ok(Undefined, offset + length)

skipUnknownField(view, limit, offset, type) ==
  LET len == readVarint32(view, limit, offset)
  IN CASE type = TYPE_VAR_INT -> SkipVarint(view, offset)
       [] type = TYPE_SIZE_N ->
            IF len.err # "" THEN len ELSE skip(view, len.off, ToInt32(len.val.bits))
       [] type = TYPE_SIZE_4 -> skip(view, offset, 4)
       [] type = TYPE_SIZE_8 -> skip(view, offset, 8)
       [] OTHER -> Fail("Error: Unimplemented type")

\* pushTemporaryLength: the new limit, with the offset after the length
pushTemporaryLength(view, limit, offset) ==
  LET length == readVarint32(view, limit, offset)
  IN IF length.err # "" THEN length
     ELSE Ok([t |-> "limit", v |-> length.off + ToInt32(length.val.bits)], length.off)

\* switch (tag >>> 3): the index of the first field whose case matches, or 0
FieldNumber(tag) == BitsNat(Bits(Shru(tag.bits, 3), 0, 29))
TagType(tag) == BitsNat(Bits(tag.bits, 0, 3))
FieldIndex(def, number) ==
  LET hits == {i \in 1..Len(def.fields) : def.fields[i].tag = number}
  IN IF number = 0 \/ hits = {} THEN 0 ELSE CHOOSE i \in hits : \A j \in hits : i <= j

\* the form of a repeated field taken from the reader's own packed option
\* instead of from the tag
IsPackedFormByOption(codec, field, tag) ==
  field.repeated /\ In(field.type, codec.packableTypes) /\ field.packed # "false"

\* if ((tag & 7) === TYPE_SIZE_N), emitted for a repeated packable field
IsPackedForm(codec, field, tag) ==
  field.repeated /\ In(field.type, codec.packableTypes) /\ TagType(tag) = TYPE_SIZE_N

IsEmbedded(codec, type) ==
  ~(type \in packableScalars \cup {"bytes", "string"}) /\ ~In(type, codec.enums)

\* message[name] = value, and values.push(value) on message[name] || []
SetKey(message, name, value) == (name :> value) @@ message
Values(message, name) ==
  IF name \in DOMAIN message /\ message[name].t = "array" THEN message[name].v ELSE <<>>
Push(message, name, value) == SetKey(message, name, Arr(Append(Values(message, name), value)))
Store(message, field, value) ==
  IF field.repeated THEN Push(message, field.name, value)
  ELSE SetKey(message, field.name, value)

\* the required checks after the loop: the name of the first field they
\* throw for, or ""
MissingRequired(def, message) ==
  LET hits == {i \in 1..Len(def.fields) :
                 /\ def.fields[i].required
                 /\ (def.fields[i].name \notin DOMAIN message
                     \/ message[def.fields[i].name].t = "undefined")}
  IN IF hits = {} THEN ""
     ELSE def.fields[CHOOSE i \in hits : \A j \in hits : i <= j].name

\* ----------------------------------------------------- schemas and inputs
\* The schemas generate is given.  family and entry are bookkeeping: which
\* inputs the run uses, and the message whose decode function is called.
ColorEnum ==
  [name |-> "Color",
   values |-> <<[key |-> Key("Color_RED", "Color", "RED"), value |-> 0],
                [key |-> Key("GREEN", "", "GREEN"), value |-> 1]>>]

ScalarTypes ==
  {"bool", "int32", "int64", "uint32", "uint64", "sint32", "sint64", "fixed32",
   "fixed64", "sfixed32", "sfixed64", "string", "bytes"}
RepeatedTypes == {"bool", "int32", "sint64", "fixed32", "uint64", "Color"}
PackedOptions == {"unset", "true", "false"}
Cardinalities == {"optional", "required", "repeated"}

\* message S { optional T f = 1; }
ScalarSchema(type) ==
  [family |-> "scalar", entry |-> "S", enums |-> <<>>,
   messages |-> <<[name |-> "S",
                   fields |-> <<Field("f", type, 1, "optional", "unset")>>]>>]

\* message R { repeated T vs = 1 [packed = p]; }
RepeatedSchema(type, packed) ==
  [family |-> "repeated", entry |-> "R", enums |-> <<ColorEnum>>,
   messages |-> <<[name |-> "R",
                   fields |-> <<Field("vs", type, 1, "repeated", packed)>>]>>]

InnerDef ==
  [name |-> "Inner",
   fields |-> <<Field("x", "fixed32", 1, "optional", "unset"),
                Field("b", "bool", 2, "optional", "unset")>>]
OuterDef ==
  [name |-> "Outer",
   fields |-> <<Field("id", "int32", 1, "required", "unset"),
                Field("inner", "Inner", 2, "optional", "unset"),
                Field("c", "Color", 3, "required", "unset"),
                Field("flag", "bool", 4, "optional", "unset"),
                Field("cs", "Color", 5, "repeated", "unset"),
                Field("name", "string", 6, "optional", "unset"),
                Field("oc", "Color", 7, "optional", "unset"),
                Field("big", "int64", 8, "optional", "unset")>>]
MainSchema ==
  [family |-> "main", entry |-> "Outer", enums |-> <<ColorEnum>>,
   messages |-> <<InnerDef, OuterDef>>]

\* schemas that differ in one field's type, cardinality and packed option;
\* "constructor" is a message of the schema
ValidationTypes ==
  packableScalars \cup {"string", "bytes", "Color", "Inner", "constructor"}
ValidationSchema(type, card, packed, second) ==
  [family |-> "validation", entry |-> "V", enums |-> <<ColorEnum>>,
   messages |-> <<InnerDef,
                  [name |-> "constructor", fields |-> <<>>],
                  [name |-> "V",
                   fields |-> <<Field("f", "int32", 1, "repeated", second),
                                Field("g", type, 2, card, packed)>>]>>]

Schemas ==
  {ScalarSchema(type) : type \in ScalarTypes}
  \cup {RepeatedSchema(type, packed) : type \in RepeatedTypes, packed \in PackedOptions}
  \cup {MainSchema}
  \cup {ValidationSchema(type, card, packed, "unset") :
          type \in ValidationTypes, card \in Cardinalities, packed \in PackedOptions}
  \cup {ValidationSchema("Inner", card, "true", "true") : card \in Cardinalities}

\* sample values of each type: powers of two, the numbers one below them,
\* and the complements of both, which include 0, -1, the minimum and the
\* maximum of the type
Patterns(w) ==
  LET base == {Shl(Trunc(<<1>>, w), k) : k \in 0..(w - 1)}
              \cup {Trunc(Ones(k), w) : k \in 0..w}
  IN base \cup {BitNot(b) : b \in base}

SampleValues(type) ==
  CASE type = "bool" -> {Bool(TRUE), Bool(FALSE)}
    [] type \in {"int32", "sint32", "sfixed32"} -> {Num(b, FALSE) : b \in Patterns(32)}
    [] type \in {"uint32", "fixed32"} -> {Num(b, TRUE) : b \in Patterns(32)}
    [] type \in {"int64", "sint64", "sfixed64"} -> {Long(b, FALSE) : b \in Patterns(64)}
    [] type \in {"uint64", "fixed64"} -> {Long(b, TRUE) : b \in Patterns(64)}
    [] type = "string" ->
         {Str(<<>>), Str(<<111, 107>>), Str(<<233>>), Str(<<8364, 0>>),
          Str(<<55357, 56832>>)}
    [] type = "bytes" -> {Bytes(<<>>), Bytes(<<0>>), Bytes(<<255, 128, 0>>)}
    [] type = "Color" -> {[t |-> "name", v |-> "RED"], [t |-> "name", v |-> "GREEN"]}

\* the elements repeated fields are given
ElementValues(type) ==
  CASE type = "bool" -> {Bool(TRUE), Bool(FALSE)}
    [] type = "int32" -> {Int32(0), Int32(0 - 1), Int32(300)}
    [] type = "fixed32" -> {Num(NatBits(0, 32), TRUE), Num(Ones(32), TRUE)}
    [] type = "sint64" -> {Long(Zeros(64), FALSE), Long(Ones(64), FALSE)}
    [] type = "uint64" -> {Long(NatBits(1, 64), TRUE), Long(Ones(64), TRUE)}
    [] type = "Color" -> {[t |-> "name", v |-> "RED"], [t |-> "name", v |-> "GREEN"]}

RECURSIVE SeqsUpTo(_, _)
SeqsUpTo(S, n) ==
  IF n = 0 THEN {<<>>}
  ELSE SeqsUpTo(S, n - 1)
       \cup {Append(q, x) : q \in {r \in SeqsUpTo(S, n - 1) : Len(r) = n - 1}, x \in S}

\* the messages handed to encode
Samples(schema) ==
  LET field == MessageDef(schema, schema.entry).fields[1]
  IN CASE schema.family = "scalar" ->
            {EmptyMap} \cup {"f" :> v : v \in SampleValues(field.type)}
       [] schema.family = "repeated" ->
            {EmptyMap}
            \cup {"vs" :> Arr(q) : q \in SeqsUpTo(ElementValues(field.type), MaxLen)}
       [] schema.family = "main" ->
            {("id" :> Int32(7)) @@ ("c" :> [t |-> "name", v |-> "GREEN"])
               @@ ("inner" :> Msg(("x" :> Num(NatBits(1, 32), TRUE)) @@ ("b" :> Bool(TRUE))))
               @@ ("cs" :> Arr(<<[t |-> "name", v |-> "RED"]>>))
               @@ ("name" :> Str(<<111, 107>>)),
             ("id" :> Int32(0 - 1)) @@ ("c" :> [t |-> "name", v |-> "RED"])
               @@ ("inner" :> Msg(EmptyMap)) @@ ("flag" :> Bool(FALSE))
               @@ ("big" :> Long(Ones(64), FALSE))}
       [] OTHER -> {}

\* raw inputs of decodeOuter: fragments, each one field as some sender or
\* some damaged stream may hold it, joined
Repeat(b, n) == [i \in 1..n |-> b]
Fragments ==
  { <<8, 7>>,                            \* id = 7
    <<8>> \o Repeat(128, 10) \o <<7>>,    \* id, a varint of 11 bytes
    <<24, 1>>,                           \* c = GREEN
    <<24, 9>>,                           \* c = 9, no name
    <<32, 1>>,                           \* flag = true
    <<32, 0>>,                           \* flag = false
    <<32, 128, 1>>,                      \* flag, varint 128 in two bytes
    <<32, 128, 0>>,                      \* flag, varint 0 in two bytes
    <<40, 1>>,                           \* cs, one element unpacked
    <<42, 2, 0, 9>>,                     \* cs, packed RED and 9
    <<50, 2, 111, 107>>,                 \* name = "ok"
    <<50, 5, 111>>,                      \* name, cut short
    <<56, 9>>,                           \* oc = 9, no name
    <<64>> \o Repeat(255, 9) \o <<1>>,    \* big = -1
    <<64>> \o Repeat(128, 10) \o <<1>>,   \* big, a varint of 11 bytes
    <<18, 5, 13, 1, 0, 0, 0>>,           \* inner = {x: 1}
    <<18, 3, 0, 16, 1>>,                 \* inner, payload starts with tag 0
    <<18, 1, 13>>,                       \* inner, x cut by the region's end
    <<18, 2, 74, 3>>,                    \* inner, unknown field longer than the region
    <<18, 255, 255, 255, 255, 15>>,      \* inner, length -1
    <<72, 150, 1>>,                      \* unknown 9, VARINT
    <<72>> \o Repeat(128, 10) \o <<0>>,   \* unknown 9, a varint of 11 bytes
    <<73, 1, 2, 3, 4, 5, 6, 7, 8>>,      \* unknown 9, FIXED64
    <<74, 2, 170, 187>>,                 \* unknown 9, LENGTH_DELIMITED
    <<74, 127>>,                         \* unknown 9, length past the end
    <<74, 250, 255, 255, 255, 15>>,      \* unknown 9, length -6
    <<74, 248, 255, 255, 255, 15>>,      \* unknown 9, length -8
    <<77, 1, 2, 3, 4>>,                  \* unknown 9, FIXED32
    <<75>>, <<76>>, <<78>>, <<79>>,      \* unknown 9, wire types 3, 4, 6, 7
    <<0>> }                              \* the end-of-message tag

\* the well-formed fields put in front of and behind a fragment
Plain == {<<8, 7>>, <<24, 1>>, <<32, 1>>, <<50, 2, 111, 107>>}

RECURSIVE Joined(_)
Joined(n) ==
  IF n = 0 THEN {<<>>}
  ELSE Joined(n - 1) \cup {q \o f : q \in Joined(n - 1), f \in Plain}

RawInputs(schema) ==
  IF schema.family = "main"
  THEN {pre \o f \o post : pre \in Joined(MaxFrags), f \in Fragments \cup {<<>>},
                            post \in Plain \cup {<<>>}}
  ELSE {}

\* the packed option a sending peer's schema may give the repeated fields
WriterForms(schema) ==
  IF schema.family = "repeated" THEN {"unset", "false"} ELSE {"unset"}
WriterSchema(schema, form) ==
  [schema EXCEPT !.messages =
     [i \in 1..Len(schema.messages) |->
        [schema.messages[i] EXCEPT !.fields =
           [j \in 1..Len(schema.messages[i].fields) |->
              IF schema.family = "repeated"
              THEN [schema.messages[i].fields[j] EXCEPT !.packed = form]
              ELSE schema.messages[i].fields[j]]]]]

\* ------------------------------------------------------------ state machine
VARIABLES
  schema,    \* the schema generate was called with
  pc,        \* "init", "failed", "generated", "ready", "decoding", "done", "error"
  codec,     \* what generate produced, or Undefined
  original,  \* the message encoded into wire, or Undefined for raw input
  form,      \* the packed option of the sender that encoded wire
  wire,      \* the bytes handed to decode: the buffer's contents
  offset,    \* buffer.offset
  limit,     \* buffer.limit
  stack,     \* the decode invocations in progress, innermost last
  result,    \* the message the outermost decode returned
  err,       \* the error thrown
  prev       \* the result of the decode before this one, or Undefined

vars == <<schema, pc, codec, original, form, wire, offset, limit, stack, result, err, prev>>

\* one invocation of a decode function: its message, where it stands
\* ("scan": in the tag loop, "packed": in the loop of a packed field,
\* "call": waiting for a nested decode, "ended": left the tag loop by tag 0),
\* the field being handled and its locals limit and outerLimit; start is
\* the offset at which the invocation began (kept for the properties only)
Frame(name, start) ==
  [def |-> name, message |-> EmptyMap, mode |-> "scan", field |-> 0,
   limit |-> 0, outerLimit |-> 0, start |-> start]

Top == stack[Len(stack)]
TopDef == MessageDef(schema, Top.def)
SetTop(frame) == [stack EXCEPT ![Len(stack)] = frame]
Remaining == limit - offset

Init ==
  /\ schema \in Schemas
  /\ pc = "init"
  /\ codec = Undefined
  /\ original = Undefined
  /\ form = "unset"
  /\ wire = <<>>
  /\ offset = 0
  /\ limit = 0
  /\ stack = <<>>
  /\ result = Undefined
  /\ err = ""
  /\ prev = Undefined

\* generate(schema): the packed validation throws, or the codec is emitted
Generate ==
  /\ pc = "init"
  /\ LET packable == Generated(schema).packableTypes
         bad == PackedError(schema, packable)
     IN IF bad # ""
        THEN /\ pc' = "failed"
             /\ err' = bad
             /\ codec' = Undefined
        ELSE /\ pc' = "generated"
             /\ err' = ""
             /\ codec' = Generated(schema)
  /\ UNCHANGED <<schema, original, form, wire, offset, limit, stack, result, prev>>

\* a peer encodes a message with the encode function of its schema
Encode ==
  /\ pc = "generated"
  /\ \E message \in Samples(schema), f \in WriterForms(schema) :
       LET writer == WriterSchema(schema, f)
           bytes == EncodeMessage(writer, Generated(writer), schema.entry, message)
       IN /\ original' = Msg(message)
          /\ form' = f
          /\ IF IsError(bytes)
             THEN pc' = "error" /\ err' = "TypeError: Illegal value" /\ wire' = <<>>
             ELSE pc' = "ready" /\ err' = "" /\ wire' = bytes
  /\ UNCHANGED <<schema, codec, offset, limit, stack, result, prev>>

\* bytes arrive from elsewhere
Receive ==
  /\ pc = "generated"
  /\ \E bytes \in RawInputs(schema) : wire' = bytes
  /\ pc' = "ready"
  /\ UNCHANGED <<schema, codec, original, form, offset, limit, stack, result, err, prev>>

\* decode<entry>(buffer): message = {}, ByteBuffer.fromBinary(buffer, true)
DecodeBegin ==
  /\ pc = "ready"
  /\ pc' = "decoding"
  /\ offset' = 0
  /\ limit' = Len(wire)
  /\ stack' = <<Frame(schema.entry, 0)>>
  /\ UNCHANGED <<schema, codec, original, form, wire, result, err, prev>>

Throw(e) ==
  /\ pc' = "error"
  /\ err' = e
  /\ UNCHANGED <<schema, codec, original, form, wire, offset, limit, stack, result, prev>>

Scanning == pc = "decoding" /\ Top.mode = "scan" /\ Remaining > 0
Tag == readVarint32(wire, limit, offset)
TagField == FieldIndex(TopDef, FieldNumber(Tag.val))

Keep == UNCHANGED <<schema, pc, codec, original, form, wire, result, err, prev>>

\* var tag = buffer.readVarint32() throws
TagFails ==
  /\ Scanning
  /\ Tag.err # ""
  /\ Throw(Tag.err)

\* case 0: break end_of_message
EndOfMessage ==
  /\ Scanning
  /\ Tag.err = ""
  /\ FieldNumber(Tag.val) = 0
  /\ offset' = Tag.off
  /\ stack' = SetTop([Top EXCEPT !.mode = "ended"])
  /\ UNCHANGED limit
  /\ Keep

\* a declared field read with its read expression: a scalar or an enum,
\* as the single value or as one element in the unpacked form
ReadField ==
  /\ Scanning
  /\ Tag.err = ""
  /\ TagField # 0
  /\ LET field == TopDef.fields[TagField]
         r == ReadScalar(schema, codec, field.type, wire, limit, Tag.off)
     IN /\ ~IsEmbedded(codec, field.type)
        /\ ~IsPackedForm(codec, field, Tag.val)
        /\ IF r.err # "" THEN Throw(r.err)
           ELSE /\ offset' = r.off
                /\ stack' = SetTop([Top EXCEPT !.message = Store(@, field, r.val)])
                /\ UNCHANGED limit
                /\ Keep

\* a repeated packable field in the packed form: pushTemporaryLength
PackedBegin ==
  /\ Scanning
  /\ Tag.err = ""
  /\ TagField # 0
  /\ LET field == TopDef.fields[TagField]
         r == pushTemporaryLength(wire, limit, Tag.off)
     IN /\ ~IsEmbedded(codec, field.type)
        /\ IsPackedForm(codec, field, Tag.val)
        /\ IF r.err # "" THEN Throw(r.err)
           ELSE /\ offset' = r.off
                /\ limit' = r.val.v
                /\ stack' = SetTop([Top EXCEPT
                                      !.message = SetKey(@, field.name,
                                                         Arr(Values(@, field.name))),
                                      !.mode = "packed", !.field = TagField,
                                      !.outerLimit = limit])
                /\ Keep

\* one turn of while (buffer.remaining() > 0) values.push(read)
PackedElement ==
  /\ pc = "decoding" /\ Top.mode = "packed" /\ Remaining > 0
  /\ LET field == TopDef.fields[Top.field]
         r == ReadScalar(schema, codec, field.type, wire, limit, offset)
     IN IF r.err # "" THEN Throw(r.err)
        ELSE /\ offset' = r.off
             /\ stack' = SetTop([Top EXCEPT !.message = Push(@, field.name, r.val)])
             /\ UNCHANGED limit
             /\ Keep

\* the packed loop ends: buffer.limit = outerLimit
PackedEnd ==
  /\ pc = "decoding" /\ Top.mode = "packed" /\ Remaining <= 0
  /\ limit' = Top.outerLimit
  /\ stack' = SetTop([Top EXCEPT !.mode = "scan", !.field = 0])
  /\ UNCHANGED offset
  /\ Keep

\* an embedded message: var limit = pushTemporaryLength(buffer), then the
\* nested decode function is called on the same buffer
EmbeddedBegin ==
  /\ Scanning
  /\ Tag.err = ""
  /\ TagField # 0
  /\ LET field == TopDef.fields[TagField]
         r == pushTemporaryLength(wire, limit, Tag.off)
     IN /\ IsEmbedded(codec, field.type)
        /\ IF r.err # "" THEN Throw(r.err)
           ELSE /\ offset' = r.off
                /\ limit' = r.val.v
                /\ stack' = Append(SetTop([Top EXCEPT !.mode = "call", !.field = TagField,
                                                      !.limit = limit]),
                                   Frame(field.type, r.off))
                /\ Keep

\* default: skipUnknownField(buffer, tag & 7)
SkipUnknown ==
  /\ Scanning
  /\ Tag.err = ""
  /\ FieldNumber(Tag.val) # 0
  /\ TagField = 0
  /\ LET r == skipUnknownField(wire, limit, Tag.off, TagType(Tag.val))
     IN IF r.err # "" THEN Throw(r.err)
        ELSE /\ offset' = r.off
             /\ UNCHANGED <<limit, stack>>
             /\ Keep

\* the tag loop is over: by the end of the input or by tag 0
LoopOver == pc = "decoding" /\ (Top.mode = "ended" \/ (Top.mode = "scan" /\ Remaining <= 0))

\* a required check throws
RequiredFails ==
  /\ LoopOver
  /\ MissingRequired(TopDef, Top.message) # ""
  /\ Throw("Missing required field: " \o MissingRequired(TopDef, Top.message))

\* a nested decode returns: the caller stores the message, buffer.limit = limit
ReturnNested ==
  /\ LoopOver
  /\ MissingRequired(TopDef, Top.message) = ""
  /\ Len(stack) > 1
  /\ LET caller == stack[Len(stack) - 1]
         field == MessageDef(schema, caller.def).fields[caller.field]
     IN /\ stack' = [i \in 1..(Len(stack) - 1) |->
                       IF i < Len(stack) - 1 THEN stack[i]
                       ELSE [caller EXCEPT !.message = Store(@, field, Msg(Top.message)),
                                           !.mode = "scan", !.field = 0]]
        /\ limit' = caller.limit
  /\ UNCHANGED offset
  /\ Keep

\* the outermost decode returns its message
ReturnMessage ==
  /\ LoopOver
  /\ MissingRequired(TopDef, Top.message) = ""
  /\ Len(stack) = 1
  /\ pc' = "done"
  /\ result' = Msg(Top.message)
  /\ UNCHANGED <<schema, codec, original, form, wire, offset, limit, stack, err, prev>>

\* the same message arrives again from a peer whose schema packs the other way
Again ==
  /\ pc = "done"
  /\ schema.family = "repeated"
  /\ original # Undefined
  /\ prev = Undefined
  /\ LET f == IF form = "unset" THEN "false" ELSE "unset"
         writer == WriterSchema(schema, f)
     IN /\ form' = f
        /\ wire' = EncodeMessage(writer, Generated(writer), schema.entry, original.v)
  /\ prev' = result
  /\ result' = Undefined
  /\ pc' = "ready"
  /\ UNCHANGED <<schema, codec, original, offset, limit, stack, err>>

Next ==
  \/ Generate
  \/ Encode
  \/ Receive
  \/ DecodeBegin
  \/ TagFails
  \/ EndOfMessage
  \/ ReadField
  \/ PackedBegin
  \/ PackedElement
  \/ PackedEnd
  \/ EmbeddedBegin
  \/ SkipUnknown
  \/ RequiredFails
  \/ ReturnNested
  \/ ReturnMessage
  \/ Again

Spec == Init /\ [][Next]_vars

\* ------------------------------------------------------------------ claims
\* two values are the same number, text or bytes; a number or a Long with
\* the top bit clear is the same signed and unsigned
ValueEq(a, b) ==
  /\ a.t = b.t
  /\ IF a.t \in {"num", "long"}
     THEN a.bits = b.bits /\ (a.u = b.u \/ a.bits[Len(a.bits)] = 0)
     ELSE a = b

SameMessage(a, b) ==
  /\ DOMAIN a.v = DOMAIN b.v
  /\ \A k \in DOMAIN a.v : ValueEq(a.v[k], b.v[k])

ScalarRun == schema.family = "scalar" /\ original # Undefined
EntryField == MessageDef(schema, schema.entry).fields[1]

\* C1: a message with one scalar field f of any of the thirteen types and
\* any value of the type decodes, after encode, without error to a message
\* whose f is the same value.
C1_RoundTrip ==
  ScalarRun =>
    /\ pc # "error"
    /\ pc = "done" => SameMessage(result, original)

\* C1 witness: int32 -1 went out as tag and ten varint bytes and came back
C1_Witness ==
  /\ ScalarRun
  /\ pc = "done"
  /\ EntryField.type = "int32"
  /\ original.v = ("f" :> Int32(0 - 1))
  /\ wire = <<8>> \o Repeat(255, 9) \o <<1>>
  /\ result.v["f"] = Int32(0 - 1)

RepeatedRun == schema.family = "repeated" /\ original # Undefined
EmptyGiven == "vs" \in DOMAIN original.v /\ original.v["vs"].v = <<>>

\* C4 as claimed: for a repeated pack-eligible field and every sequence of
\* values, the empty one included, the decode of the packed bytes and the
\* decode of the unpacked bytes are identical, and neither is refused,
\* whatever the reader's own packed option.
C4_Identical ==
  RepeatedRun =>
    /\ pc # "error"
    /\ (pc = "done" /\ prev # Undefined) => result = prev

\* C4 amended: the two decodes are identical for every sequence that is not
\* empty (and for an absent field); for the empty sequence the packed
\* bytes decode to an empty sequence and the unpacked bytes, which are no
\* bytes at all, leave the key absent.  Neither form is refused.
C4_IdenticalUnlessEmpty ==
  RepeatedRun =>
    /\ pc # "error"
    /\ (pc = "done" /\ prev # Undefined) =>
         IF EmptyGiven
         THEN LET ofPacked == IF form = "unset" THEN result ELSE prev
                  ofUnpacked == IF form = "unset" THEN prev ELSE result
              IN ofPacked.v = ("vs" :> Arr(<<>>)) /\ ofUnpacked.v = EmptyMap
         ELSE result = prev /\ SameMessage(result, original)

\* C4 witness: a reader whose schema says packed = false has decoded two
\* elements from the unpacked and then from the packed bytes, alike
C4_Witness ==
  /\ RepeatedRun
  /\ pc = "done"
  /\ prev # Undefined
  /\ EntryField.packed = "false"
  /\ form = "unset"
  /\ "vs" \in DOMAIN original.v
  /\ Len(original.v["vs"].v) = 2
  /\ result = prev

\* the wire format's own reading of the bytes at off, used to state what a
\* decoder is expected to do: the offset after the varint that starts at
\* off, or NoByte when no byte with the high bit clear follows
RECURSIVE VarintEnd(_, _)
VarintEnd(view, off) ==
  IF off >= Len(view) THEN NoByte
  ELSE IF view[off + 1] < 128 THEN off + 1
  ELSE VarintEnd(view, off + 1)

\* whether the varint that starts at off is not zero
VarintNonZero(view, off) ==
  \E i \in off..(VarintEnd(view, off) - 1) : view[i + 1] % 128 # 0

\* the bits of the varint that starts at off, least significant first
RECURSIVE VarintBits(_, _)
VarintBits(view, off) ==
  IF off >= Len(view) THEN <<>>
  ELSE NatBits(view[off + 1] % 128, 7)
       \o (IF view[off + 1] < 128 THEN <<>> ELSE VarintBits(view, off + 1))

\* the offset after the field of wire type type whose payload starts at
\* off, or NoByte when the input ends before it (a length is unsigned)
FieldEnd(view, off, type) ==
  LET e == VarintEnd(view, off)
      bits == VarintBits(view, off)
      n == BitsNat(Bits(bits, 0, 24))
  IN CASE type = TYPE_VAR_INT -> e
       [] type = TYPE_SIZE_8 -> IF off + 8 <= Len(view) THEN off + 8 ELSE NoByte
       [] type = TYPE_SIZE_4 -> IF off + 4 <= Len(view) THEN off + 4 ELSE NoByte
       [] type = TYPE_SIZE_N ->
            IF e = NoByte \/ ~Below(bits, 24) \/ e + n > Len(view) THEN NoByte ELSE e + n

AtUnknown == Scanning /\ Tag.err = "" /\ FieldNumber(Tag.val) # 0 /\ TagField = 0

\* C3: at a tag whose field number is not declared, decode moves the cursor
\* to the end of that field as its wire type lays it out (or fails when the
\* input ends first), leaves the message as it is and goes on scanning; any
\* wire type but VARINT, FIXED64, LENGTH_DELIMITED, FIXED32 is an
\* 'Unimplemented type' error.
C3_SkipUnknown ==
  [][AtUnknown =>
       LET type == TagType(Tag.val)
       IN IF type \notin {TYPE_VAR_INT, TYPE_SIZE_8, TYPE_SIZE_N, TYPE_SIZE_4}
          THEN pc' = "error" /\ err' = "Error: Unimplemented type"
          ELSE IF FieldEnd(wire, Tag.off, type) = NoByte THEN pc' = "error"
          ELSE /\ pc' = "decoding"
               /\ offset' = FieldEnd(wire, Tag.off, type)
               /\ stack' = stack]_vars

\* the first required field, in declaration order, whose key the message
\* lacks, or ""
AbsentRequired(def, message) ==
  LET hits == {i \in 1..Len(def.fields) :
                 def.fields[i].required /\ def.fields[i].name \notin DOMAIN message}
  IN IF hits = {} THEN ""
     ELSE def.fields[CHOOSE i \in hits : \A j \in hits : i <= j].name

\* C2: when the scan loop has ended, by the end of the input or by tag 0,
\* decode throws naming the first required field whose key is absent from
\* the message, and returns the message when no required key is absent.
C2_Required ==
  [][LoopOver =>
       LET absent == AbsentRequired(TopDef, Top.message)
       IN IF absent # ""
          THEN pc' = "error" /\ err' = "Missing required field: " \o absent
          ELSE pc' # "error"]_vars

\* an enum field of the message holds a value that had no name
HoldsUnnamed(def, message) ==
  \E i \in 1..Len(def.fields) :
    /\ In(def.fields[i].type, codec.enums)
    /\ def.fields[i].name \in DOMAIN message
    /\ \/ message[def.fields[i].name].t = "undefined"
       \/ /\ message[def.fields[i].name].t = "array"
          /\ \E k \in 1..Len(message[def.fields[i].name].v) :
               message[def.fields[i].name].v[k].t = "undefined"

\* C6: an enum field, optional, required or repeated, whose wire integer
\* has no name does not make decode fail: when the scan ends with such a
\* field decoded and every required field's key present, decode returns.
C6_UnknownEnum ==
  [][(LoopOver /\ HoldsUnnamed(TopDef, Top.message)
      /\ AbsentRequired(TopDef, Top.message) = "") => pc' # "error"]_vars

\* the first ten bytes from off all have the high bit set
LongVarint(view, off) == \A i \in 0..9 : off + i < Len(view) /\ view[off + i + 1] >= 128

FixedTypes == {"double", "fixed32", "fixed64", "float", "sfixed32", "sfixed64"}

\* the step about to be taken consumes a varint of more than ten bytes: the
\* tag, the value or the length behind it, or an element of a packed field
ConsumesLongVarint ==
  \/ /\ Scanning
     /\ \/ LongVarint(wire, offset)
        \/ /\ Tag.err = ""
           /\ FieldNumber(Tag.val) # 0
           /\ LongVarint(wire, Tag.off)
           /\ IF TagField = 0 THEN TagType(Tag.val) \in {TYPE_VAR_INT, TYPE_SIZE_N}
              ELSE TopDef.fields[TagField].type \notin FixedTypes
  \/ /\ pc = "decoding" /\ Top.mode = "packed" /\ Remaining > 0
     /\ TopDef.fields[Top.field].type \notin FixedTypes
     /\ LongVarint(wire, offset)

\* C7: a varint with no terminating byte within ten bytes is rejected
\* wherever decode consumes it, skipUnknownField included.
C7_MalformedVarint == [][ConsumesLongVarint => pc' = "error"]_vars

\* C8: a nested decode whose region is wire[start .. limit) never moves the
\* cursor past limit, and when it returns the cursor is at limit and the
\* caller's limit is back.
C8_NestedBoundary ==
  [][(pc = "decoding" /\ Len(stack) > 1 /\ Top.mode # "packed" /\ Top.start <= limit) =>
       /\ (pc' = "decoding" /\ Len(stack') = Len(stack) /\ stack'[Len(stack)].mode # "packed")
            => offset' <= limit
       /\ Len(stack') < Len(stack)
            => offset = limit /\ offset' = offset /\ limit' = stack[Len(stack) - 1].limit]_vars

\* C9: every turn of the tag loop and of the packed-element loop, the call
\* of skipUnknownField included, moves the cursor strictly forward.
C9_Progress ==
  [][(pc = "decoding" /\ pc' = "decoding"
      /\ (Scanning \/ (Top.mode = "packed" /\ Remaining > 0))) => offset' > offset]_vars

\* C10: a bool field is read as a varint: the cursor moves past the whole
\* varint and the value is true exactly when the varint is not zero; encode
\* writes a bool as the one byte 0 or 1.
C10_BoolVarint ==
  [][/\ (ScalarRun /\ EntryField.type = "bool" /\ pc = "ready")
          => wire \in {<<>>, <<8, 0>>, <<8, 1>>}
     /\ (Scanning /\ Tag.err = "" /\ TagField # 0
         /\ TopDef.fields[TagField].type = "bool" /\ ~TopDef.fields[TagField].repeated
         /\ VarintEnd(wire, Tag.off) # NoByte)
          => /\ pc' = "decoding"
             /\ offset' = VarintEnd(wire, Tag.off)
             /\ stack'[Len(stack)].message[TopDef.fields[TagField].name]
                  = Bool(VarintNonZero(wire, Tag.off))]_vars

\* the types the packed option may be given to: the numeric scalar types,
\* bool, and the enums the schema declares
PackEligible(s) == packableScalars \cup EnumNames(s)
BadlyPacked(s) ==
  \E i \in 1..Len(AllFields(s.messages, 1)) :
    LET f == AllFields(s.messages, 1)[i]
    IN f.packed = "true" /\ (~f.repeated \/ f.type \notin PackEligible(s))

\* C5: generate throws, and hands out no codec, exactly when some field has
\* packed = true and is not repeated or not of a pack-eligible type.
C5_PackedValidation ==
  pc # "init" => ((pc = "failed" /\ codec = Undefined) <=> BadlyPacked(schema))
====
